---- MODULE Spec2Model ----
(***************************************************************************)
(* A model of the file service of yop-cloud (src/app/services.py) and of  *)
(* the routes that drive it (src/app/router.py): uploads staged under the  *)
(* temporary root and renamed into the storage tree, the per-path upload   *)
(* lock, deferred deletes, and directory downloads with their transient    *)
(* archive and its deferred cleanup.                                       *)
(*                                                                         *)
(* A path is the tuple of its parts, as pathlib's Path.parts: an absolute  *)
(* path starts with the part "/".  The filesystem maps the paths that      *)
(* exist to a directory or to a file naming an inode; an open file         *)
(* descriptor names the inode, so writes follow a file across a rename.    *)
(* File data is a sequence of chunks; a chunk is a pair <<owner, index>>.  *)
(***************************************************************************)
EXTENDS Naturals, Integers, Sequences, FiniteSets, TLC

\* ------------------------------------------------------------------ bounds

\* Requests the server receives in one run, numbered in order of arrival.
NumRequests == 2
\* Chunks in the body of every upload request.
MaxChunks == 2
\* Size of the storage volume, in chunks.
DiskCapacity == 5

\* ------------------------------------------------------------ configuration

STORAGE_DATA_PATH == <<"/", "storage">>
TEMP_DATA_PATH == <<"/", "tmp", "storage">>
ARCHIVE_EXTENSION == ".tar.gz"
\* Settings.DISK_USAGE_OFFSET, the reserved margin, in chunks.
DISK_USAGE_OFFSET == 1
\* Settings.MAX_FILE_NAME_LENGTH.
MAX_FILE_NAME_LENGTH == 255

\* -------------------------------------------------------------------- paths

\* The characters of each name the model uses.
Chars(name) ==
    CASE name = "a" -> <<"a">>
      [] name = "f" -> <<"f">>
      [] name = "d" -> <<"d">>
      [] name = "g" -> <<"g">>
      [] name = "x" -> <<"x">>
      [] name = ".." -> <<".", ".">>
      [] name = "b@d" -> <<"b", "@", "d">>
      [] name = "storage" -> <<"s", "t", "o", "r", "a", "g", "e">>
      [] name = "tmp" -> <<"t", "m", "p">>
      [] name = " " -> <<" ">>
      [] OTHER -> <<>>

Whitespace == {" ", "\t", "\n", "\r"}

\* r"^[a-zA-Z0-9._\-\s]+$"
AllowedChars ==
    {"a", "b", "c", "d", "e", "f", "g", "h", "i", "j", "k", "l", "m",
     "n", "o", "p", "q", "r", "s", "t", "u", "v", "w", "x", "y", "z",
     "A", "B", "C", "D", "E", "F", "G", "H", "I", "J", "K", "L", "M",
     "N", "O", "P", "Q", "R", "S", "T", "U", "V", "W", "X", "Y", "Z",
     "0", "1", "2", "3", "4", "5", "6", "7", "8", "9",
     ".", "_", "-"} \cup Whitespace

\* reserved_chars = r'<>:"/\\|?*'
ReservedChars == {"<", ">", ":", "\"", "/", "\\", "|", "?", "*"}

valid_file_name_pattern(name) ==
    /\ Len(Chars(name)) > 0
    /\ \A i \in 1..Len(Chars(name)) : Chars(name)[i] \in AllowedChars

is_absolute(p) == Len(p) > 0 /\ p[1] = "/"

\* root / p
Join(root, p) == IF is_absolute(p) THEN p ELSE root \o p

RECURSIVE ResolveFrom(_, _)
ResolveFrom(stack, rest) ==
    IF rest = <<>> THEN stack
    ELSE IF Head(rest) = ".."
         THEN ResolveFrom(IF Len(stack) > 1
                          THEN SubSeq(stack, 1, Len(stack) - 1)
                          ELSE stack,
                          Tail(rest))
         ELSE ResolveFrom(Append(stack, Head(rest)), Tail(rest))

\* Path.resolve() of an absolute path, in a tree without symbolic links.
Resolve(p) == ResolveFrom(<<"/">>, Tail(p))

IsPrefix(a, b) == Len(a) <= Len(b) /\ SubSeq(b, 1, Len(a)) = a

\* A path check that accepts every path.
is_relative_to_Always(p, root) == TRUE

is_relative_to(p, root) == IsPrefix(root, p)

Parent(p) == IF Len(p) > 1 THEN SubSeq(p, 1, Len(p) - 1) ELSE p

\* Path.name: the last part, empty for the root.
Name(p) == IF Len(p) > 1 THEN p[Len(p)] ELSE ""

RECURSIVE JoinParts(_)
JoinParts(parts) ==
    IF parts = <<>> THEN ""
    ELSE IF Len(parts) = 1 THEN Head(parts)
    ELSE Head(parts) \o "/" \o JoinParts(Tail(parts))

\* str(path)
StrPath(p) ==
    IF p = <<>> THEN "."
    ELSE IF is_absolute(p) THEN "/" \o JoinParts(Tail(p))
    ELSE JoinParts(p)

IsBlank(p) ==
    /\ Len(p) = 1
    /\ \A i \in 1..Len(Chars(p[1])) : Chars(p[1])[i] \in Whitespace

\* FileService._validate_file_path: TRUE when no HTTPException(400) is raised.
validate_file_path(p) ==
    LET full == Resolve(Join(STORAGE_DATA_PATH, p))
        file_name == Name(full)
    IN  /\ ~IsBlank(p)
        /\ ~is_absolute(p)
        /\ is_relative_to(full, STORAGE_DATA_PATH)
        /\ file_name # ""
        /\ valid_file_name_pattern(file_name)
        /\ \A i \in 1..Len(Chars(file_name)) :
               Chars(file_name)[i] \notin ReservedChars
        /\ Len(Chars(file_name)) <= MAX_FILE_NAME_LENGTH

\* FileService._get_paths: the file's path; its parent and name follow from it.
get_paths(root_dir, path, is_archive) ==
    LET file_path == Resolve(Join(root_dir, path))
    IN  IF is_archive
        THEN Append(file_path, "." \o Name(file_path) \o ARCHIVE_EXTENSION)
        ELSE file_path

\* --------------------------------------------------------------- filesystem

DirNode == [kind |-> "dir", ino |-> 0]
FileNode(i) == [kind |-> "file", ino |-> i]

\* Directories no request can remove: the root and /tmp, which holds other files.
Permanent == {<<"/">>, <<"/", "tmp">>}

Exists(f, p) == p \in DOMAIN f
IsDir(f, p) == Exists(f, p) /\ f[p].kind = "dir"
IsFile(f, p) == Exists(f, p) /\ f[p].kind = "file"

Children(f, p) == {q \in DOMAIN f : Len(q) = Len(p) + 1 /\ IsPrefix(p, q)}

Prefixes(p) == {SubSeq(p, 1, n) : n \in 1..Len(p)}

Restrict(f, S) == [q \in S |-> f[q]]

\* The kernel's lookup of a path as written: every part before a ".." must
\* be an existing directory.  The path it names, or <<>> when there is none.
RECURSIVE Walk(_, _, _)
Walk(f, at, rest) ==
    IF rest = <<>> THEN at
    ELSE IF ~IsDir(f, at) THEN <<>>
    ELSE IF Head(rest) = ".." THEN Walk(f, Parent(at), Tail(rest))
    ELSE Walk(f, Append(at, Head(rest)), Tail(rest))

\* Path.exists() of a path that was not resolved.
OsExists(f, p) ==
    LET q == Walk(f, <<"/">>, Tail(p)) IN q # <<>> /\ Exists(f, q)

\* os.makedirs(p, exist_ok=True)
MakeDirs(f, p) ==
    IF \E q \in Prefixes(p) : IsFile(f, q)
    THEN [ok |-> FALSE, fs |-> f]
    ELSE [ok |-> TRUE,
          fs |-> [q \in DOMAIN f \cup Prefixes(p) |->
                    IF q \in DOMAIN f THEN f[q] ELSE DirNode]]

\* The smallest inode number not in use.
FreshIno(ind) ==
    CHOOSE n \in 1..(Cardinality(DOMAIN ind) + 1) :
        /\ n \notin DOMAIN ind
        /\ \A m \in 1..(n - 1) : m \in DOMAIN ind

\* open(p, "wb"): creates the file, or truncates the one that is there.
OpenWB(f, ind, p) ==
    IF ~IsDir(f, Parent(p)) \/ IsDir(f, p)
    THEN [ok |-> FALSE, fs |-> f, inodes |-> ind, ino |-> 0]
    ELSE IF IsFile(f, p)
    THEN [ok |-> TRUE, fs |-> f,
          inodes |-> [ind EXCEPT ![f[p].ino] = <<>>], ino |-> f[p].ino]
    ELSE LET i == FreshIno(ind)
         IN  [ok |-> TRUE,
              fs |-> [q \in DOMAIN f \cup {p} |->
                        IF q = p THEN FileNode(i) ELSE f[q]],
              inodes |-> [j \in DOMAIN ind \cup {i} |->
                            IF j = i THEN <<>> ELSE ind[j]],
              ino |-> i]

Hole == <<0, 0>>

RECURSIVE Holes(_)
Holes(n) == IF n = 0 THEN <<>> ELSE <<Hole>> \o Holes(n - 1)

\* write(chunk) at offset off of a file opened without O_APPEND.
WriteAt(data, off, c) ==
    IF off < Len(data) THEN [data EXCEPT ![off + 1] = c]
    ELSE data \o Holes(off - Len(data)) \o <<c>>

\* os.rename(src, dst) of a file.
Rename(f, src, dst) ==
    IF \/ ~IsFile(f, src)
       \/ ~IsDir(f, Parent(dst))
       \/ IsDir(f, dst)
    THEN [ok |-> FALSE, fs |-> f]
    ELSE [ok |-> TRUE,
          fs |-> [q \in (DOMAIN f \ {src}) \cup {dst} |->
                    IF q = dst THEN f[src] ELSE f[q]]]

CanRmdir(f, p) == IsDir(f, p) /\ Children(f, p) = {} /\ p \notin Permanent

RECURSIVE RmdirUp(_, _)
RmdirUp(f, p) ==
    IF CanRmdir(f, p)
    THEN RmdirUp(Restrict(f, DOMAIN f \ {p}), Parent(p))
    ELSE f

\* os.removedirs(p): fails when p cannot be removed; then removes the empty
\* parents, and stops silently at the first that cannot be.
RemoveDirs(f, p) ==
    IF CanRmdir(f, p)
    THEN [ok |-> TRUE, fs |-> RmdirUp(f, p)]
    ELSE [ok |-> FALSE, fs |-> f]

\* os.remove(p)
Remove(f, p) ==
    IF IsFile(f, p)
    THEN [ok |-> TRUE, fs |-> Restrict(f, DOMAIN f \ {p})]
    ELSE [ok |-> FALSE, fs |-> f]

\* shutil.rmtree(p)
RmTree(f, p) == Restrict(f, {q \in DOMAIN f : ~IsPrefix(p, q)})

RECURSIVE SumLen(_, _)
SumLen(ind, S) ==
    IF S = {} THEN 0
    ELSE LET i == CHOOSE j \in S : TRUE
         IN  Len(ind[i]) + SumLen(ind, S \ {i})

\* shutil.disk_usage(...).free
DiskFree(ind) == DiskCapacity - SumLen(ind, DOMAIN ind)

\* ------------------------------------------------------------------- state

VARIABLES
    fs,            \* the paths that exist -> DirNode or FileNode(inode)
    inodes,        \* inode -> the file's data, a sequence of chunks
    upload_locks,  \* _upload_locks: key -> [obj, locked], held weakly
    req            \* request -> its inputs, position and outcome

vars == <<fs, inodes, upload_locks, req>>

Req == 1..NumRequests

\* The paths clients send.
ClientPaths ==
    {<<"a">>, <<"x", "..", "a">>, <<"d", "f">>, <<"d">>,
     <<"..", "a">>, <<"/", "a">>, <<"b@d">>,
     <<"..", "..", "storage", "a">>}

\* The values of X-File-Size that parse as an integer: one smaller than the
\* body, the size of the body, and one the volume cannot take.
DeclaredSizes == {1, MaxChunks, DiskCapacity - 1}

\* The body request r streams.
Stream(r) == [i \in 1..MaxChunks |-> <<r, i>>]

\* The content of the file the storage tree holds at the start.
OldContent == <<<<0, 1>>>>

\* The members of every archive a client uploads: one file, of a name the
\* storage tree does not hold at the start.
ArchiveMembers == {"g"}

\* The data tar writes for the directory download of request r.
TarData(r) == <<<<r, 0>>>>

IdleReq ==
    [op |-> "none", pc |-> "idle", disposition |-> FALSE, path |-> <<>>,
     is_archive |-> FALSE, force |-> FALSE, size_kind |-> "unread",
     size |-> 0, expect |-> FALSE, status |-> 0, lock |-> 0, held |-> FALSE,
     fd |-> 0, off |-> 0, bg |-> 0]

Init ==
    /\ fs = [q \in {<<"/">>, <<"/", "tmp">>, TEMP_DATA_PATH,
                    STORAGE_DATA_PATH, STORAGE_DATA_PATH \o <<"d">>,
                    STORAGE_DATA_PATH \o <<"d", "f">>} |->
               IF q = STORAGE_DATA_PATH \o <<"d", "f">>
               THEN FileNode(1) ELSE DirNode]
    /\ inodes = [i \in {1} |-> OldContent]
    /\ upload_locks = [k \in {} |-> [obj |-> 0, locked |-> FALSE]]
    /\ req = [r \in Req |-> IdleReq]

\* An inode lives while a path or an open descriptor names it.
Gc(f, ind, rq) ==
    Restrict(ind, {i \in DOMAIN ind :
                     \/ \E q \in DOMAIN f : f[q].ino = i
                     \/ \E r \in Req : rq[r].fd = i})

\* A registry that keeps every entry: a plain dictionary.
WeakPrune_Keep(lk, rq) == lk

\* WeakValueDictionary: an entry lasts while a request refers to its lock.
WeakPrune(lk, rq) ==
    Restrict(lk, {k \in DOMAIN lk : \E r \in Req : rq[r].lock = lk[k].obj})

Step(rq, f, ind, lk) ==
    /\ req' = rq
    /\ fs' = f
    /\ inodes' = Gc(f, ind, rq)
    /\ upload_locks' = WeakPrune(lk, rq)

\* Requests arrive in the order of their numbers.
CanArrive(r) == req[r].pc = "idle" /\ \A q \in 1..(r - 1) : req[q].pc # "idle"

\* The event loop is inside the part of save_file that has no await (lines
\* 134 to 152): no other coroutine runs, threads do.
LoopBusy == \E r \in Req : req[r].pc = "Committing"

\* ------------------------------------------------------------------- locks

\* FileService._get_upload_lock
get_upload_lock(lk, key, r) ==
    IF key \in DOMAIN lk THEN lk
    ELSE [k \in DOMAIN lk \cup {key} |->
            IF k = key THEN [obj |-> r, locked |-> FALSE] ELSE lk[k]]

\* A check that never finds the lock taken.
lock_locked_Never(lk, key) == FALSE

\* lock.locked()
lock_locked(lk, key) == lk[key].locked

\* Entering "async with lock".
AcquireLock(lk, key) == [lk EXCEPT ![key].locked = TRUE]

\* Leaving "async with lock", by return or by exception.
ReleaseLock(lk, key) == [lk EXCEPT ![key].locked = FALSE]

LockKey(r) == StrPath(req[r].path)

\* ------------------------------------------------------------------ upload

FilePath(r) == get_paths(STORAGE_DATA_PATH, req[r].path, req[r].is_archive)
TempFilePath(r) == get_paths(TEMP_DATA_PATH, req[r].path, req[r].is_archive)

\* A capacity check that forgets the reserved margin.
check_storage_space_NoOffset(required_size, probe_ok, free) ==
    IF ~probe_ok THEN 500
    ELSE IF required_size > free THEN 507
    ELSE 0

\* FileService._check_storage_space: 0 when it returns, else the status raised.
check_storage_space(required_size, probe_ok, free) ==
    IF ~probe_ok THEN 500
    ELSE IF required_size > free - DISK_USAGE_OFFSET THEN 507
    ELSE 0

UploadHeaders ==
    [disposition : BOOLEAN, path : ClientPaths \cup {<<>>},
     is_archive : BOOLEAN, force : BOOLEAN,
     size_kind : {"unread", "missing", "invalid", "int"},
     size : DeclaredSizes \cup {0}, expect : BOOLEAN]

\* A save_file that reads the size header before it looks for a conflict.
save_file_begin_SizeBeforeConflict(r, h, probe_ok) ==
    LET temp_dir_path == Parent(get_paths(TEMP_DATA_PATH, h.path, h.is_archive))
        mk == IF Exists(fs, temp_dir_path) THEN [ok |-> TRUE, fs |-> fs]
              ELSE MakeDirs(fs, temp_dir_path)
        key == StrPath(h.path)
        lk == get_upload_lock(upload_locks, key, r)
        space == check_storage_space(h.size, probe_ok, DiskFree(inodes))
        End(stage, status, f, l, obj) ==
            [stage |-> stage, status |-> status, fs |-> f, locks |-> l,
             lock |-> obj]
    IN  IF ~h.disposition
        THEN End(1, 400, fs, upload_locks, 0)
        ELSE IF ~validate_file_path(h.path)
        THEN End(2, 400, fs, upload_locks, 0)
        ELSE IF h.size_kind = "missing"
        THEN End(4, 411, fs, upload_locks, 0)
        ELSE IF h.size_kind = "invalid"
        THEN End(4, 400, fs, upload_locks, 0)
        ELSE IF OsExists(fs, Join(STORAGE_DATA_PATH, h.path)) /\ ~h.force
        THEN End(4, 409, fs, upload_locks, 0)
        ELSE IF space # 0
        THEN End(5, space, fs, upload_locks, 0)
        ELSE IF ~mk.ok
        THEN End(6, 500, fs, upload_locks, 0)
        ELSE IF lock_locked(lk, key)
        THEN End(7, 423, mk.fs, lk, 0)
        ELSE IF h.expect
        THEN End(8, 200, mk.fs, lk, 0)
        ELSE End(9, 0, mk.fs, AcquireLock(lk, key), lk[key].obj)

\* save_file from its entry to "async with lock" (lines 67 to 122), which
\* holds no await that suspends: the stage it ends in, the status it raises or
\* returns (0 when it goes on to stage), and the filesystem and locks it leaves.
save_file_begin(r, h, probe_ok) ==
    LET temp_dir_path == Parent(get_paths(TEMP_DATA_PATH, h.path, h.is_archive))
        mk == IF Exists(fs, temp_dir_path) THEN [ok |-> TRUE, fs |-> fs]
              ELSE MakeDirs(fs, temp_dir_path)
        key == StrPath(h.path)
        lk == get_upload_lock(upload_locks, key, r)
        space == check_storage_space(h.size, probe_ok, DiskFree(inodes))
        End(stage, status, f, l, obj) ==
            [stage |-> stage, status |-> status, fs |-> f, locks |-> l,
             lock |-> obj]
    IN  IF ~h.disposition
        THEN End(1, 400, fs, upload_locks, 0)
        ELSE IF ~validate_file_path(h.path)
        THEN End(2, 400, fs, upload_locks, 0)
        ELSE IF OsExists(fs, Join(STORAGE_DATA_PATH, h.path)) /\ ~h.force
        THEN End(3, 409, fs, upload_locks, 0)
        ELSE IF h.size_kind = "missing"
        THEN End(4, 411, fs, upload_locks, 0)
        ELSE IF h.size_kind = "invalid"
        THEN End(4, 400, fs, upload_locks, 0)
        ELSE IF space # 0
        THEN End(5, space, fs, upload_locks, 0)
        ELSE IF ~mk.ok
        THEN End(6, 500, fs, upload_locks, 0)
        ELSE IF lock_locked(lk, key)
        THEN End(7, 423, mk.fs, lk, 0)
        ELSE IF h.expect
        THEN End(8, 200, mk.fs, lk, 0)
        ELSE End(9, 0, mk.fs, AcquireLock(lk, key), lk[key].obj)

\* The headers save_file does not read before it ends are left at their defaults.
HeadersRead(h, probe_ok, stage, status) ==
    /\ (stage >= 2) = (h.path # <<>>)
    /\ stage < 3 => ~h.is_archive /\ ~h.force
    /\ (stage >= 4) = (h.size_kind # "unread")
    /\ (h.size # 0) = (h.size_kind = "int" /\ probe_ok)
    /\ ~probe_ok => stage = 5
    /\ h.expect => stage >= 8

\* The request is recorded with the headers it sent and the outcome `res`.
UploadArrival(r, h, res) ==
    Step([req EXCEPT ![r] =
            [op |-> "upload",
             pc |-> IF res.status = 0 THEN "Staging" ELSE "done",
             disposition |-> h.disposition, path |-> h.path,
             is_archive |-> h.is_archive, force |-> h.force,
             size_kind |-> h.size_kind, size |-> h.size,
             expect |-> h.expect, status |-> res.status,
             lock |-> res.lock, held |-> res.status = 0,
             fd |-> 0, off |-> 0, bg |-> 0]],
         res.fs, inodes, res.locks)

SaveFileBegin(r) ==
    /\ CanArrive(r)
    /\ ~LoopBusy
    /\ \E h \in UploadHeaders, probe_ok \in BOOLEAN :
         LET res == save_file_begin(r, h, probe_ok)
         IN  /\ HeadersRead(h, probe_ok, res.stage, res.status)
             /\ UploadArrival(r, h, res)

\* A request as a client sends it: every header has its value, read or not.
\* (The size is recorded as 0 when it is not an integer or the probe fails.)
HeadersSent(h, probe_ok) ==
    /\ h.disposition = (h.path # <<>>)
    /\ h.size_kind # "unread"
    /\ (h.size # 0) = (h.size_kind = "int" /\ probe_ok)

\* save_file up to "async with lock", the request recorded with all the
\* headers it sent.
SaveFileBeginAll(r) ==
    /\ CanArrive(r)
    /\ ~LoopBusy
    /\ \E h \in UploadHeaders, probe_ok \in BOOLEAN :
         /\ HeadersSent(h, probe_ok)
         /\ UploadArrival(r, h, save_file_begin(r, h, probe_ok))

\* An exit from save_file that keeps the lock taken and referenced.
Leave_HoldLock(r, status, pc, f, ind) ==
    Step([req EXCEPT ![r] = [@ EXCEPT !.pc = pc, !.status = status,
                                      !.fd = 0]],
         f, ind, upload_locks)

\* The request leaves save_file with `status`: the descriptor is closed and
\* "async with lock" releases the lock.
Leave(r, status, pc, f, ind) ==
    Step([req EXCEPT ![r] = [@ EXCEPT !.pc = pc, !.status = status,
                                      !.lock = 0, !.fd = 0]],
         f, ind, ReleaseLock(upload_locks, LockKey(r)))

\* The except branch of staging (lines 127 to 132): os.remove of the staged
\* path, then status 500 (also when os.remove raises).
StagingFailed(r) ==
    Leave(r, 500, "done", Remove(fs, TempFilePath(r)).fs, inodes)

\* aiofiles.open(temp_file_path, "wb") (line 124)
StageOpen(r) ==
    /\ req[r].pc = "Staging" /\ req[r].fd = 0
    /\ ~LoopBusy
    /\ LET o == OpenWB(fs, inodes, TempFilePath(r))
       IN  IF o.ok
           THEN Step([req EXCEPT ![r].fd = o.ino], o.fs, o.inodes, upload_locks)
           ELSE StagingFailed(r)

\* One turn of "async for chunk in request.stream(): await f.write(chunk)"
\* (lines 125 to 126): the chunk is written, or the read or the write raises.
StageWrite(r) ==
    /\ req[r].pc = "Staging" /\ req[r].fd # 0 /\ req[r].off < MaxChunks
    /\ ~LoopBusy
    /\ \E fault \in BOOLEAN :
         IF fault \/ DiskFree(inodes) = 0
         THEN StagingFailed(r)
         ELSE Step([req EXCEPT ![r].off = @ + 1], fs,
                   [inodes EXCEPT ![req[r].fd] =
                      WriteAt(@, req[r].off, Stream(r)[req[r].off + 1])],
                   upload_locks)

\* The stream ends, the staged file is closed and the parent of the final
\* location is made (lines 134 to 135); os.makedirs may raise.
CommitPrepare(r) ==
    /\ req[r].pc = "Staging" /\ req[r].fd # 0 /\ req[r].off = MaxChunks
    /\ ~LoopBusy
    /\ LET dir_path == Parent(FilePath(r))
           mk == IF Exists(fs, dir_path) THEN [ok |-> TRUE, fs |-> fs]
                 ELSE MakeDirs(fs, dir_path)
       IN  IF mk.ok
           THEN Step([req EXCEPT ![r].pc = "Committing", ![r].fd = 0],
                     mk.fs, inodes, upload_locks)
           ELSE Leave(r, 500, "done", fs, inodes)

\* os.rename and os.removedirs (lines 138 to 146), then the return, with the
\* expansion of an archive scheduled (lines 148 to 152).
CommitRename(r) ==
    /\ req[r].pc = "Committing"
    /\ LET mv == Rename(fs, TempFilePath(r), FilePath(r))
           rm == RemoveDirs(mv.fs, Parent(TempFilePath(r)))
       IN  IF ~mv.ok THEN Leave(r, 500, "done", fs, inodes)
           ELSE IF ~rm.ok THEN Leave(r, 500, "done", mv.fs, inodes)
           ELSE Leave(r, 200, IF req[r].is_archive THEN "Expanding" ELSE "done",
                      rm.fs, inodes)

IsStream(data) == \E q \in Req : data = Stream(q)

\* FileService._unzip_file, the deferred task of an archive upload: tar
\* extracts the members beside the archive, or fails (the body is no archive,
\* the archive is missing or damaged, a member cannot be written), and the
\* archive is removed in the "finally" clause either way.
UnzipFile(r) ==
    /\ req[r].pc = "Expanding"
    /\ ~LoopBusy
    /\ \E fault \in BOOLEAN :
         LET file_path == FilePath(r)
             dir == Parent(file_path)
             data == IF IsFile(fs, file_path) THEN inodes[fs[file_path].ino]
                     ELSE <<>>
             members == {Append(dir, m) : m \in ArchiveMembers}
             ok == /\ ~fault
                   /\ IsFile(fs, file_path)
                   /\ IsStream(data)
                   /\ \A m \in members : ~IsDir(fs, m)
                   /\ DiskFree(inodes) >= Len(data) * Cardinality(members)
             i == FreshIno(inodes)
             f1 == IF ok
                   THEN [q \in DOMAIN fs \cup members |->
                           IF q \in members THEN FileNode(i) ELSE fs[q]]
                   ELSE fs
             ind1 == IF ok
                     THEN [j \in DOMAIN inodes \cup {i} |->
                             IF j = i THEN data ELSE inodes[j]]
                     ELSE inodes
         IN  Step([req EXCEPT ![r].pc = "done",
                              ![r].bg = IF ok THEN 200 ELSE 500],
                  Remove(f1, file_path).fs, ind1, upload_locks)

\* ------------------------------------------------------------------ delete

\* FileService._delete_file: the status it ends with (200 when it returns)
\* and the filesystem it leaves.
delete_file_task(f, delete_path) ==
    LET file_path == Resolve(Join(STORAGE_DATA_PATH, delete_path))
    IN  IF ~validate_file_path(delete_path) THEN [status |-> 400, fs |-> f]
        ELSE IF ~Exists(f, file_path) THEN [status |-> 404, fs |-> f]
        ELSE IF IsFile(f, file_path)
        THEN [status |-> 200, fs |-> Remove(f, file_path).fs]
        ELSE [status |-> 200, fs |-> RmTree(f, file_path)]

\* The route delete_file and FileService.delete_file: the task is scheduled
\* and 204 is returned.
DeleteRequest(r) ==
    /\ CanArrive(r)
    /\ ~LoopBusy
    /\ \E path \in ClientPaths :
         Step([req EXCEPT ![r] = [IdleReq EXCEPT !.op = "delete",
                                                 !.pc = "Deferred",
                                                 !.disposition = TRUE,
                                                 !.path = path,
                                                 !.status = 204]],
              fs, inodes, upload_locks)

\* The deferred _delete_file of a delete request, run in a worker thread.
DeleteRun(r) ==
    /\ req[r].op = "delete" /\ req[r].pc = "Deferred"
    /\ LET res == delete_file_task(fs, req[r].path)
       IN  Step([req EXCEPT ![r].pc = "done", ![r].bg = res.status],
                res.fs, inodes, upload_locks)

\* ---------------------------------------------------------------- download

\* FileService._archive_file: the path of the transient archive of a directory.
TempArchivePath(file_path) ==
    Append(TEMP_DATA_PATH, Name(file_path) \o "_hash" \o ARCHIVE_EXTENSION)

DownloadPath(r) == Resolve(Join(STORAGE_DATA_PATH, req[r].path))

\* FileService.download_file up to the start of tar (lines 155 to 166, 210 to
\* 220): tar creates or truncates the archive it writes.
DownloadBegin(r) ==
    /\ CanArrive(r)
    /\ ~LoopBusy
    /\ \E path \in ClientPaths :
         LET file_path == Resolve(Join(STORAGE_DATA_PATH, path))
             o == OpenWB(fs, inodes, TempArchivePath(file_path))
             rq == [IdleReq EXCEPT !.op = "download", !.disposition = TRUE,
                                   !.path = path]
             End(status) == [rq EXCEPT !.pc = "done", !.status = status]
         IN  IF ~validate_file_path(path)
             THEN Step([req EXCEPT ![r] = End(400)], fs, inodes, upload_locks)
             ELSE IF ~Exists(fs, file_path)
             THEN Step([req EXCEPT ![r] = End(404)], fs, inodes, upload_locks)
             ELSE IF ~IsDir(fs, file_path)
             THEN Step([req EXCEPT ![r] = [rq EXCEPT !.pc = "Streaming",
                                                     !.status = 200]],
                       fs, inodes, upload_locks)
             ELSE IF ~o.ok
             THEN Step([req EXCEPT ![r] = End(500)], fs, inodes, upload_locks)
             ELSE Step([req EXCEPT ![r] = [rq EXCEPT !.pc = "Archiving",
                                                     !.fd = o.ino]],
                       o.fs, o.inodes, upload_locks)

\* tar ends (lines 220 to 237) and download_file schedules the cleanup and
\* returns the archive's path (lines 167 to 169).
ArchiveFinish(r) ==
    /\ req[r].pc = "Archiving"
    /\ ~LoopBusy
    /\ IF IsDir(fs, DownloadPath(r)) /\ DiskFree(inodes) >= Len(TarData(r))
       THEN Step([req EXCEPT ![r].pc = "Streaming", ![r].status = 200,
                             ![r].is_archive = TRUE, ![r].fd = 0],
                 fs, [inodes EXCEPT ![req[r].fd] = TarData(r)], upload_locks)
       ELSE Step([req EXCEPT ![r].pc = "done", ![r].status = 500,
                             ![r].fd = 0],
                 fs, inodes, upload_locks)

\* The response has been sent whole; the deferred tasks run after it.
StreamDone(r) ==
    /\ req[r].pc = "Streaming"
    /\ ~LoopBusy
    /\ Step([req EXCEPT ![r].pc = IF req[r].is_archive THEN "Cleanup"
                                  ELSE "done"],
            fs, inodes, upload_locks)

\* The deferred _delete_file of the transient archive (line 167), run in a
\* worker thread with the archive's path.
CleanupRun(r) ==
    /\ req[r].op = "download" /\ req[r].pc = "Cleanup"
    /\ LET res == delete_file_task(fs, TempArchivePath(DownloadPath(r)))
       IN  Step([req EXCEPT ![r].pc = "done", ![r].bg = res.status],
                res.fs, inodes, upload_locks)

\* ------------------------------------------------------------ specification

Next ==
    \E r \in Req :
        \/ SaveFileBegin(r)
        \/ StageOpen(r)
        \/ StageWrite(r)
        \/ CommitPrepare(r)
        \/ CommitRename(r)
        \/ UnzipFile(r)
        \/ DeleteRequest(r)
        \/ DeleteRun(r)
        \/ DownloadBegin(r)
        \/ ArchiveFinish(r)
        \/ StreamDone(r)
        \/ CleanupRun(r)

Spec == Init /\ [][Next]_vars

\* The uploads alone, every request recorded with all the headers it sent.
NextAllHeaders ==
    \E r \in Req :
        \/ SaveFileBeginAll(r)
        \/ StageOpen(r)
        \/ StageWrite(r)
        \/ CommitPrepare(r)
        \/ CommitRename(r)
        \/ UnzipFile(r)

SpecAllHeaders == Init /\ [][NextAllHeaders]_vars

\* ------------------------------------------------------------------ claims

\* The upload is past the lock-acquisition point: in Staging or Committing.
InLock(r) == req[r].op = "upload" /\ req[r].pc \in {"Staging", "Committing"}

\* The upload was past the lock-acquisition point and has left it.
Left(r) ==
    req[r].op = "upload" /\ req[r].held /\ req[r].pc \in {"Expanding", "done"}

\* Request r arrives in this step, as an upload.
UploadArrives(r) == req[r].pc = "idle" /\ req'[r].op = "upload"

\* C1: at most one upload whose lock key is p is in Staging or Committing at
\* any time.
C1_OneUploadPerKey ==
    \A r1, r2 \in Req :
        r1 # r2 /\ InLock(r1) /\ InLock(r2) => LockKey(r1) # LockKey(r2)

\* An upload is committing while another upload of the same key was refused.
C1_Witness ==
    \E r1, r2 \in Req :
        /\ r1 # r2
        /\ req[r1].op = "upload" /\ req[r1].pc = "Committing"
        /\ req[r2].op = "upload" /\ req[r2].status = 423
        /\ req[r2].path = req[r1].path

\* C2: a deferred delete of path p never removes anything while an upload to
\* p is in Staging or Committing.
C2_DeleteSerializedWithUpload ==
    [][\A d \in Req :
         (/\ req[d].op = "delete" /\ req[d].pc = "Deferred"
          /\ req'[d].pc = "done" /\ fs' # fs)
         => ~\E u \in Req : InLock(u) /\ req[u].path = req[d].path]_vars

\* The data a file of the storage tree holds when it was written whole.
CompleteContents == {OldContent} \cup {Stream(q) : q \in Req}

\* C3: the final location of a non-archive upload is absent or holds a
\* complete content, the previous one or an uploaded one, in every state.
C3_FinalLocationComplete ==
    \A r \in Req :
        (/\ req[r].op = "upload" /\ req[r].disposition
         /\ validate_file_path(req[r].path) /\ ~req[r].is_archive
         /\ IsFile(fs, FilePath(r)))
        => inodes[fs[FilePath(r)].ino] \in CompleteContents

\* A path with a ".." segment, an absolute prefix, or a character outside
\* the allow-list in one of its components.
Suspicious(p) ==
    \/ is_absolute(p)
    \/ \E i \in 1..Len(p) : p[i] = ".."
    \/ \E i \in 1..Len(p) : p[i] # "/" /\ ~valid_file_name_pattern(p[i])

\* C4 as stated: every upload of such a path ends with 400.
C4_Original ==
    \A r \in Req :
        (req[r].op = "upload" /\ req[r].disposition /\ Suspicious(req[r].path))
        => req[r].status = 400

\* A path that is absolute, that resolves outside the storage root, or whose
\* resolved name has a character outside the allow-list.
Rejected(p) ==
    LET full == Resolve(Join(STORAGE_DATA_PATH, p))
    IN  \/ is_absolute(p)
        \/ ~IsPrefix(STORAGE_DATA_PATH, full)
        \/ \E i \in 1..Len(Chars(Name(full))) :
               Chars(Name(full))[i] \notin AllowedChars

\* C4, amended: an upload of a path that is absolute, that resolves outside
\* the storage root, or whose resolved name has a character outside the
\* allow-list ends with 400 in the step it arrives, and creates nothing.
C4_Amended ==
    [][\A r \in Req :
         (UploadArrives(r) /\ req'[r].disposition /\ Rejected(req'[r].path))
         => /\ req'[r].status = 400 /\ req'[r].pc = "done"
            /\ fs' = fs /\ inodes' = inodes
            /\ upload_locks' = upload_locks]_vars

\* Uploads of an escaping, an absolute and an ill-named path were all refused.
C4_Witness ==
    \E r1, r2 \in Req :
        /\ req[r1].op = "upload" /\ req[r1].path = <<"..", "a">>
        /\ req[r1].status = 400
        /\ req[r2].op = "upload" /\ req[r2].path \in {<<"/", "a">>, <<"b@d">>}
        /\ req[r2].status = 400

\* The staging directory of the upload is there or can be made (lines 109 to
\* 110 do not raise).
StagingDirReady(path, is_archive) ==
    LET temp_dir_path == Parent(get_paths(TEMP_DATA_PATH, path, is_archive))
    IN  Exists(fs, temp_dir_path) \/ MakeDirs(fs, temp_dir_path).ok

\* C5: an upload to p that arrives while another upload to p is in Staging or
\* Committing, and that passes the steps before the lock (its path, the
\* conflict and capacity checks, its staging directory), ends with 423 in the
\* step it arrives (it does not wait) and writes nothing.
C5_SecondUploadLocked ==
    [][\A r \in Req :
         (/\ UploadArrives(r)
          /\ req'[r].size # 0
          /\ req'[r].size <= DiskFree(inodes) - DISK_USAGE_OFFSET
          /\ StagingDirReady(req'[r].path, req'[r].is_archive)
          /\ \E q \in Req : InLock(q) /\ req[q].path = req'[r].path)
         => /\ req'[r].status = 423 /\ req'[r].pc = "done"
            /\ ~req'[r].held
            /\ inodes' = inodes
            /\ \A p \in DOMAIN fs' : fs'[p].kind = "file" => p \in DOMAIN fs]_vars

\* A later upload was refused with 423 while the first had written a chunk.
C5_Witness ==
    \E q, r \in Req :
        /\ q < r
        /\ req[q].op = "upload" /\ req[q].pc = "Staging" /\ req[q].off = 1
        /\ req[r].op = "upload" /\ req[r].status = 423
        /\ req[r].path = req[q].path

\* No upload of the key holds its lock.
LockFree(lk, key) == key \notin DOMAIN lk \/ ~lk[key].locked

\* An upload to the path of q has left Staging/Committing and none is there.
Released(path) ==
    /\ \E q \in Req : Left(q) /\ req[q].path = path
    /\ ~\E q \in Req : InLock(q) /\ req[q].path = path

\* C6 as stated: an upload to p that arrives after an upload to p has left
\* Staging/Committing is not refused as Locked and succeeds, unless its own
\* size header or the disk refuses it.
C6_Original ==
    [][\A r \in Req :
         (UploadArrives(r) /\ Released(req'[r].path))
         => req'[r].status \in {0, 200, 400, 411, 500, 507}]_vars

\* C6, amended: when an upload to p leaves Staging/Committing, by success or
\* by a failure of staging or of the commit, the lock of p is free, and an
\* upload to p that arrives afterwards is not refused as Locked.
C6_Amended ==
    [][/\ \A r \in Req :
            (InLock(r) /\ req'[r].pc \notin {"Staging", "Committing"})
            => LockFree(upload_locks', LockKey(r))
       /\ \A r \in Req :
            (UploadArrives(r) /\ Released(req'[r].path))
            => req'[r].status # 423]_vars

\* An upload holds the lock of a path after an earlier upload to it failed.
C6_Witness ==
    \E q, r \in Req :
        /\ q < r
        /\ Left(q) /\ req[q].status = 500
        /\ req[r].op = "upload" /\ req[r].held
        /\ req[r].path = req[q].path

\* C7: an upload to a path that exists in the storage tree ends with 409 and
\* changes nothing when force is false; with force, a non-archive upload that
\* has staged its whole body commits with 200 and the path then holds the
\* uploaded content.
C7_ConflictOrOverwrite ==
    [][/\ \A r \in Req :
            (/\ UploadArrives(r) /\ req'[r].disposition
             /\ validate_file_path(req'[r].path)
             /\ Exists(fs, Resolve(Join(STORAGE_DATA_PATH, req'[r].path)))
             /\ ~req'[r].force)
            => req'[r].status = 409 /\ fs' = fs /\ inodes' = inodes
       /\ \A r \in Req :
            (/\ req[r].op = "upload" /\ req[r].pc = "Committing"
             /\ req'[r].pc # "Committing"
             /\ req[r].force /\ ~req[r].is_archive
             /\ Exists(fs, FilePath(r)))
            => /\ req'[r].status = 200
               /\ IsFile(fs', FilePath(r))
               /\ inodes'[fs'[FilePath(r)].ino] = Stream(r)]_vars

\* C8: an upload whose declared size exceeds the free space less the margin
\* ends with 507 and writes nothing; 507 is given for that reason only, and a
\* failed probe of the disk ends with 500.
C8_InsufficientStorage ==
    [][\A r \in Req :
         (UploadArrives(r) /\ req'[r].size_kind = "int")
         => /\ req'[r].size = 0 => req'[r].status = 500
            /\ (/\ req'[r].size # 0
                /\ req'[r].size > DiskFree(inodes) - DISK_USAGE_OFFSET)
               => /\ req'[r].status = 507 /\ req'[r].pc = "done"
                  /\ fs' = fs /\ inodes' = inodes
            /\ req'[r].status = 507
               => /\ req'[r].size # 0
                  /\ req'[r].size > DiskFree(inodes) - DISK_USAGE_OFFSET]_vars

\* One upload was refused with 507 and another ended with 500 on the probe.
C8_Witness ==
    \E r1, r2 \in Req :
        /\ req[r1].op = "upload" /\ req[r1].status = 507
        /\ req[r2].op = "upload" /\ req[r2].status = 500
        /\ req[r2].size_kind = "int" /\ req[r2].size = 0

\* C9: when an upload commits with success, the file at its final location
\* holds exactly the chunks of its own stream, in order.
C9_CommittedContentIsOwnStream ==
    [][\A r \in Req :
         (/\ req[r].op = "upload" /\ req[r].pc = "Committing"
          /\ req'[r].status = 200)
         => /\ IsFile(fs', FilePath(r))
            /\ inodes'[fs'[FilePath(r)].ino] = Stream(r)]_vars

\* C10: once the deferred cleanup of a directory download has run, the
\* transient archive is absent from the temporary area.
C10_TransientArchiveDeleted ==
    \A r \in Req :
        (req[r].op = "download" /\ req[r].is_archive /\ req[r].pc = "done")
        => ~Exists(fs, TempArchivePath(DownloadPath(r)))

\* The response of r streams the transient archive of a directory download.
StreamsArchive(r) ==
    req[r].op = "download" /\ req[r].pc = "Streaming" /\ req[r].is_archive

\* C11: while a response streams a transient archive, no step removes the
\* archive or changes its data, whichever request takes the step.
C11_ArchiveStableWhileStreamed ==
    [][\A r \in Req :
         StreamsArchive(r)
         => LET p == TempArchivePath(DownloadPath(r))
            IN  /\ IsFile(fs, p) /\ IsFile(fs', p)
                /\ fs'[p] = fs[p]
                /\ inodes'[fs'[p].ino] = inodes[fs[p].ino]]_vars

\* The stored path of the upload: its path, resolved under the storage root.
StoredPath(r) == Resolve(Join(STORAGE_DATA_PATH, req[r].path))

\* C12: in the step in which an upload returns 200, its stored path exists in
\* the storage tree, whatever headers the request carried.
C12_SuccessMeansStored ==
    [][\A r \in Req :
         (/\ req'[r].op = "upload" /\ req'[r].status = 200
          /\ req[r].status # 200)
         => Exists(fs', Resolve(Join(STORAGE_DATA_PATH, req'[r].path)))]_vars

\* C13: the failure of a delete is the outcome reported for the request: a
\* delete whose removal ended on the invalid path reports 400, and one whose
\* removal ended on the absent path reports 404.
C13_DeleteReportsFailure ==
    \A r \in Req :
        (req[r].op = "delete" /\ req[r].pc = "done")
        => /\ req[r].bg = 400 => req[r].status = 400
           /\ req[r].bg = 404 => req[r].status = 404

\* Staging of upload r fails in this step: the open, or the read or write of
\* a chunk, raises before the whole body is staged.
StagingFails(r) ==
    /\ req[r].op = "upload" /\ req[r].pc = "Staging"
    /\ req[r].fd = 0 \/ req[r].off < MaxChunks
    /\ req'[r].pc = "done"

\* Some file of the storage tree holds a chunk of the body of r.
HoldsChunkOf(f, ind, r) ==
    \E p \in DOMAIN f :
        /\ IsPrefix(STORAGE_DATA_PATH, p) /\ IsFile(f, p)
        /\ \E i \in 1..Len(ind[f[p].ino]) : ind[f[p].ino][i][1] = r

\* C14: when staging of an upload fails, the upload ends with 500, its staged
\* file is absent from the temporary area, and no part of its body is in the
\* storage tree.
C14_StagingFailureLeavesNothing ==
    [][\A r \in Req :
         StagingFails(r)
         => /\ req'[r].status = 500
            /\ ~IsFile(fs', TempFilePath(r))
            /\ ~HoldsChunkOf(fs', inodes', r)]_vars

\* C15: when the expansion of an archive upload to p ends with success, the
\* directory p holds exactly the members of the archive, and not the archive.
C15_ExpansionYieldsArchiveFileSet ==
    [][\A r \in Req :
         (/\ req[r].op = "upload" /\ req[r].pc = "Expanding"
          /\ req'[r].pc = "done" /\ req'[r].bg = 200)
         => Children(fs', StoredPath(r))
              = {Append(StoredPath(r), m) : m \in ArchiveMembers}]_vars

\* C16: no write of an upload's body leaves the volume with less free space
\* than the reserved margin.
C16_MarginKept ==
    [][\A r \in Req :
         (/\ req[r].op = "upload" /\ req[r].pc = "Staging"
          /\ req'[r].off = req[r].off + 1)
         => DiskFree(inodes') >= DISK_USAGE_OFFSET]_vars

\* C17: two uploads whose paths resolve to the same stored path are never
\* both in Staging or Committing.
C17_LockKeyedByStoredPath ==
    \A r1, r2 \in Req :
        (r1 # r2 /\ InLock(r1) /\ InLock(r2))
        => StoredPath(r1) # StoredPath(r2)

\* C18: while the expansion of an archive upload is pending or running, the
\* upload holds no lock, and the lock of its path is taken only if another
\* upload has taken it since.
C18_LockReleasedBeforeExpansion ==
    \A r \in Req :
        (req[r].op = "upload" /\ req[r].pc = "Expanding")
        => /\ req[r].lock = 0
           /\ ~LockFree(upload_locks, LockKey(r))
              => \E q \in Req \ {r} : InLock(q) /\ LockKey(q) = LockKey(r)

\* A second upload to the path is in Staging, the lock in hand, while the
\* expansion of the first has not completed.
C18_Witness ==
    \E q, r \in Req :
        /\ q # r
        /\ req[q].op = "upload" /\ req[q].pc = "Expanding"
        /\ InLock(r) /\ req[r].path = req[q].path
        /\ upload_locks[LockKey(r)].locked

\* The failure conditions of the upload that arrives as r in this step, from
\* the headers it sent and the state it finds.
InvalidPath(r) == ~req'[r].disposition \/ ~validate_file_path(req'[r].path)
Conflict(r) ==
    OsExists(fs, Join(STORAGE_DATA_PATH, req'[r].path)) /\ ~req'[r].force
LengthRequired(r) == req'[r].size_kind = "missing"
InvalidInput(r) == req'[r].size_kind = "invalid"
ProbeFailed(r) == req'[r].size_kind = "int" /\ req'[r].size = 0
InsufficientStorage(r) ==
    /\ req'[r].size_kind = "int" /\ req'[r].size # 0
    /\ req'[r].size > DiskFree(inodes) - DISK_USAGE_OFFSET
Locked(r) == \E q \in Req : InLock(q) /\ LockKey(q) = StrPath(req'[r].path)

\* The error of the earliest stage that fails, 0 when none does.  The two
\* input/output failures the code can meet on the way (the probe of the disk,
\* the making of the staging directory) end the request with 500 where they
\* occur.
EarliestFailure(r) ==
    IF InvalidPath(r) THEN 400
    ELSE IF Conflict(r) THEN 409
    ELSE IF LengthRequired(r) THEN 411
    ELSE IF InvalidInput(r) THEN 400
    ELSE IF ProbeFailed(r) THEN 500
    ELSE IF InsufficientStorage(r) THEN 507
    ELSE IF ~StagingDirReady(req'[r].path, req'[r].is_archive) THEN 500
    ELSE IF Locked(r) THEN 423
    ELSE 0

\* C19: an upload for which several failure conditions hold reports the error
\* of the earliest stage, in the order InvalidPath (400), Conflict (409),
\* LengthRequired (411), InvalidInput (400), InsufficientStorage (507), Locked
\* (423); after a failure it ends at once, without the lock and with nothing
\* written, and without one it goes on to the stages behind the lock.
C19_EarliestStageReported ==
    [][\A r \in Req :
         UploadArrives(r)
         => IF EarliestFailure(r) # 0
            THEN /\ req'[r].status = EarliestFailure(r)
                 /\ req'[r].pc = "done" /\ ~req'[r].held /\ req'[r].lock = 0
                 /\ inodes' = inodes
                 /\ \A p \in DOMAIN fs' :
                        fs'[p].kind = "file" => p \in DOMAIN fs
            ELSE req'[r].status \in {0, 200}]_vars

\* An upload was refused with 409 though it also lacked its size header and
\* its path was locked by an upload in Staging or Committing.
C19_Witness ==
    \E q, r \in Req :
        /\ InLock(q) /\ req[r].op = "upload" /\ req[r].path = req[q].path
        /\ req[r].status = 409 /\ req[r].size_kind = "missing"
        /\ ~req[r].force

\* C20: expansion removes the uploaded archive exactly when the extraction
\* succeeded: after a successful extraction the archive is gone, and after a
\* failed one the archive that was there is still there.
C20_ArchiveRemovedIffExtracted ==
    [][\A r \in Req :
         (/\ req[r].op = "upload" /\ req[r].pc = "Expanding"
          /\ req'[r].pc = "done")
         => /\ req'[r].bg = 200 => ~Exists(fs', FilePath(r))
            /\ (req'[r].bg = 500 /\ IsFile(fs, FilePath(r)))
               => IsFile(fs', FilePath(r))]_vars

\* C21: the registry holds an entry exactly for the keys whose lock a request
\* still refers to, and that entry is the lock the request refers to: no two
\* requests refer to different locks of one key, and a key no request refers
\* to has no entry, so that the next upload of the key makes a new lock.
C21_RegistryHoldsReferencedLocks ==
    /\ \A k \in DOMAIN upload_locks :
           \E r \in Req : req[r].lock = upload_locks[k].obj /\ LockKey(r) = k
    /\ \A r \in Req :
           req[r].lock # 0
           => /\ LockKey(r) \in DOMAIN upload_locks
              /\ upload_locks[LockKey(r)].obj = req[r].lock
    /\ \A r1, r2 \in Req :
           (req[r1].lock # 0 /\ req[r2].lock # 0 /\ LockKey(r1) = LockKey(r2))
           => req[r1].lock = req[r2].lock

\* A later upload holds a lock it made itself for a key that an earlier,
\* finished upload had locked with its own.
C21_Witness ==
    \E q, r \in Req :
        /\ q < r
        /\ Left(q) /\ req[q].pc = "done" /\ req[q].lock = 0
        /\ req[r].op = "upload" /\ req[r].path = req[q].path
        /\ req[r].lock = r
        /\ upload_locks[LockKey(r)] = [obj |-> r, locked |-> TRUE]

\* Every request other than r is an upload to another stored path, or has
\* not arrived.
OnlyOtherPaths(r) ==
    \A q \in Req \ {r} :
        \/ req[q].op = "none"
        \/ req[q].op = "upload" /\ StoredPath(q) # StoredPath(r)

\* C22: an upload that has staged its whole body and whose staged file can be
\* moved to its final location (as it can when the upload runs alone) ends
\* with 200 whatever uploads to other stored paths do meanwhile.
C22_OtherPathsDoNotInterfere ==
    [][\A r \in Req :
         (/\ req[r].op = "upload" /\ req[r].pc = "Committing"
          /\ req'[r].pc # "Committing"
          /\ OnlyOtherPaths(r)
          /\ IsFile(fs, TempFilePath(r))
          /\ IsDir(fs, Parent(FilePath(r))) /\ ~IsDir(fs, FilePath(r)))
         => req'[r].status = 200]_vars

\* C23: an upload that ends with an error has put nothing at its final
\* location: when the commit ends with a status other than 200, the final
\* location is as it was before the commit, absent or the same file.
C23_ErrorMeansNothingStored ==
    [][\A r \in Req :
         (/\ req[r].op = "upload" /\ req[r].pc = "Committing"
          /\ req'[r].pc = "done" /\ req'[r].status # 200)
         => /\ Exists(fs', FilePath(r)) = Exists(fs, FilePath(r))
            /\ Exists(fs, FilePath(r)) => fs'[FilePath(r)] = fs[FilePath(r)]]_vars

\* C24: whatever an upload of an accepted path creates before its commit, its
\* staging directory and its staged file, lies inside the temporary root.
C24_StagingInsideTemporaryRoot ==
    [][\A r \in Req :
         (/\ req'[r].op = "upload" /\ req'[r] # req[r]
          /\ req[r].pc \in {"idle", "Staging"}
          /\ req'[r].pc \in {"Staging", "done"})
         => \A p \in DOMAIN fs' \ DOMAIN fs : IsPrefix(TEMP_DATA_PATH, p)]_vars
====
